---- MODULE Spec2Model ----
(***************************************************************************)
(* A model of lcc_from_isbn: the row loop of main.py / lcc_simple.py, the  *)
(* sqlite cache (isbn_lc.db), the ISBN normaliser fix_isbn and the source  *)
(* adapters (get_oclc_data, harvard_get, loc_search, get_blacklight).      *)
(***************************************************************************)
EXTENDS Integers, Sequences, FiniteSets, TLC

\* Rows read from input files, over all runs that share one cache file.
MaxRows == 2

\* Python's None for a string-valued variable.
None == "None"

\* Python truthiness of an optional string: None and '' are falsy.
Truthy(v) == v /= None /\ v /= ""

(***************************************************************************)
(* Text.  A token is a string; Chars gives its characters, Str is the      *)
(* inverse on the strings the model uses.                                  *)
(***************************************************************************)
Strings ==
  { "", "9780143127741", "0-8044-2957-X", "080442957X", "9780143127742", "Title",
    "0143127748" }

Chars(s) ==
  CASE s = "" -> <<>>
    [] s = "9780143127741" -> <<"9","7","8","0","1","4","3","1","2","7","7","4","1">>
    [] s = "0-8044-2957-X" -> <<"0","-","8","0","4","4","-","2","9","5","7","-","X">>
    [] s = "080442957X" -> <<"0","8","0","4","4","2","9","5","7","X">>
    [] s = "9780143127742" -> <<"9","7","8","0","1","4","3","1","2","7","7","4","2">>
    [] s = "Title" -> <<"T","i","t","l","e">>
    [] s = "0143127748" -> <<"0","1","4","3","1","2","7","7","4","8">>

Str(cs) == CHOOSE s \in Strings : Chars(s) = cs

StrLen(s) == Len(Chars(s))

Digits == {"0","1","2","3","4","5","6","7","8","9"}

DigitVal(c) ==
  CASE c = "0" -> 0 [] c = "1" -> 1 [] c = "2" -> 2 [] c = "3" -> 3 [] c = "4" -> 4
    [] c = "5" -> 5 [] c = "6" -> 6 [] c = "7" -> 7 [] c = "8" -> 8 [] c = "9" -> 9

\* str.find(ch): the 0-based index of the first occurrence, -1 when absent.
Find(cs, ch) ==
  IF \E i \in 1..Len(cs) : cs[i] = ch
    THEN (CHOOSE i \in 1..Len(cs) : cs[i] = ch /\ \A j \in 1..(i-1) : cs[j] /= ch) - 1
    ELSE -1

AllDigits(cs) == \A i \in 1..Len(cs) : cs[i] \in Digits

(***************************************************************************)
(* isbnlib, as fix_isbn uses it.                                           *)
(***************************************************************************)
\* isbnlib.canonical: keep only digits and X; '' unless 10 or 13 long.
canonical(cs) ==
  LET numb == SelectSeq(cs, LAMBDA c : c \in Digits \cup {"X", "x"})
      isbn == IF Len(numb) > 0 /\ numb[Len(numb)] = "x"
                THEN [numb EXCEPT ![Len(numb)] = "X"] ELSE numb
      zeros10 == [i \in 1..10 |-> "0"]
      zeros13 == [i \in 1..13 |-> "0"]
      zeros9X == [i \in 1..10 |-> IF i = 10 THEN "X" ELSE "0"]
  IN IF \/ (Len(isbn) > 0 /\ Len(isbn) \notin {10, 13})
        \/ isbn \in {zeros10, zeros13, zeros9X}
        \/ Find(isbn, "X") \notin {9, -1}
        \/ Find(isbn, "x") /= -1
       THEN <<>> ELSE isbn

RECURSIVE SumWeighted(_, _, _)
\* sum over i in 1..n of w[i] * value of cs[i]
SumWeighted(cs, w, n) ==
  IF n = 0 THEN 0 ELSE w[n] * DigitVal(cs[n]) + SumWeighted(cs, w, n - 1)

\* isbnlib.check_digit10 of the first nine characters ('' when not digits).
check_digit10(cs) ==
  IF Len(cs) /= 9 \/ ~AllDigits(cs) THEN ""
  ELSE LET val == SumWeighted(cs, [i \in 1..9 |-> 11 - i], 9)
           remainder == val % 11
           tenth == IF remainder = 0 THEN 0 ELSE 11 - remainder
       IN IF tenth = 10 THEN "X"
          ELSE CHOOSE d \in Digits : DigitVal(d) = tenth

\* isbnlib.check_digit13 of the first twelve characters.
check_digit13(cs) ==
  IF Len(cs) /= 12 \/ ~AllDigits(cs) THEN ""
  ELSE LET val == SumWeighted(cs, [i \in 1..12 |-> IF i % 2 = 1 THEN 1 ELSE 3], 12)
           thirteenth == 10 - (val % 10)
       IN IF thirteenth = 10 THEN "0"
          ELSE CHOOSE d \in Digits : DigitVal(d) = thirteenth

\* A check that accepts no ISBN-10.
is_isbn10_never(cs) == FALSE

is_isbn10(cs) ==
  LET c == canonical(cs)
  IN Len(c) = 10 /\ check_digit10(SubSeq(c, 1, 9)) = c[10]

is_isbn13(cs) ==
  LET c == canonical(cs)
  IN /\ Len(c) = 13
     /\ SubSeq(c, 1, 3) \in {<<"9","7","8">>, <<"9","7","9">>}
     /\ check_digit13(SubSeq(c, 1, 12)) = c[13]

RECURSIVE IsbnRuns(_, _)
\* The maximal runs of digits, X and '-' in a text that are at least 10 long,
\* in order; cur is the run being read.
IsbnRuns(cs, cur) ==
  LET done == IF Len(cur) >= 10 THEN << cur >> ELSE <<>>
  IN IF cs = <<>> THEN done
     ELSE IF Head(cs) \in Digits \cup {"X", "-"}
       THEN IsbnRuns(Tail(cs), Append(cur, Head(cs)))
     ELSE done \o IsbnRuns(Tail(cs), <<>>)

\* isbnlib.get_isbnlike returns a LIST of the ISBN-like substrings of the text:
\* its runs of 10 or more characters among digits, X and '-' (the tokens here
\* hold no run longer than one match).
get_isbnlike(cs) == IsbnRuns(cs, <<>>)

\* A normaliser that skips the check-digit validation.
fix_isbn_unchecked(isbn) == canonical(isbn)

\* fix_isbn: the canonical ISBN of a raw token, <<>> for None.
fix_isbn(isbn) ==
  LET lib_isbn == canonical(isbn)
      isgood == IF Len(lib_isbn) = 10 THEN is_isbn10(lib_isbn)
                ELSE IF Len(lib_isbn) = 13 THEN is_isbn13(lib_isbn) ELSE FALSE
      likes == get_isbnlike(isbn)
  IN IF Len(lib_isbn) \in {10, 13} /\ isgood THEN lib_isbn
     ELSE IF Len(lib_isbn) < 10 THEN <<>>
     \* len() of the list get_isbnlike returned: the number of matches
     ELSE IF Len(likes) < 10 THEN <<>>
     ELSE <<>>

(***************************************************************************)
(* The cache file isbn_lc.db: whether the file exists, whether it holds    *)
(* the table main, and the rows of main in insertion (rowid) order.        *)
(***************************************************************************)
sqlitefile == [file |-> "absent", table |-> FALSE, rows |-> <<>>]

\* table_columns: the columns of main.  All three are plain text: the schema
\* declares no PRIMARY KEY and no UNIQUE column.
table_columns == <<"ISBN", "LC", "LCSource">>

UniqueColumns == {}

\* Python None for a row of main.
NoEntry == [ISBN |-> "", LC |-> None, LCSource |-> None]

\* sqlite3.connect on the file: an absent file is created, empty.
connect(d) == IF d.file = "absent" THEN [d EXCEPT !.file = "present"] ELSE d

\* sql_tablecreate: CREATE TABLE IF NOT EXISTS main (...); an execute error is
\* caught and the table is left as it was.
sql_tablecreate(d, execOK) == IF execOK THEN [d EXCEPT !.table = TRUE] ELSE d

\* sqlite_create: connect, create the table, commit, close.
sqlite_create(d, execOK) == sql_tablecreate(connect(d), execOK)

Lower(c) == IF c = "X" THEN "x" ELSE IF c = "T" THEN "t" ELSE c

\* A comparison of lengths only.
LikeSameLength(cs, p) == Len(cs) = Len(p)

RECURSIVE Like(_, _)
\* SQL LIKE: value cs against pattern p; '%' is any run of characters, '_' any
\* one character, letters compare without case.
Like(cs, p) ==
  IF p = <<>> THEN cs = <<>>
  ELSE IF Head(p) = "%"
    THEN \E k \in 0..Len(cs) : Like(SubSeq(cs, k + 1, Len(cs)), Tail(p))
  ELSE IF cs = <<>> THEN FALSE
  ELSE /\ (Head(p) = "_" \/ Lower(Head(p)) = Lower(Head(cs)))
       /\ Like(Tail(cs), Tail(p))

RECURSIVE Distinct(_)
\* SELECT DISTINCT: each row once, in the order of its first occurrence.
Distinct(rs) ==
  IF rs = <<>> THEN <<>>
  ELSE LET front == Distinct(SubSeq(rs, 1, Len(rs) - 1))
           last == rs[Len(rs)]
       IN IF \E i \in 1..Len(front) : front[i] = last THEN front
          ELSE Append(front, last)

\* A SELECT without its WHERE clause.
SelectAllRows(rows, isbn) == Distinct(rows)

\* The SELECT of sqlite_search, run on a table that exists.
SelectLike(rows, isbn) ==
  Distinct(SelectSeq(rows, LAMBDA r : Like(Chars(r.ISBN), Chars(isbn))))

\* The query part of sqlite_search on an open connection: the first row of
\* SELECT DISTINCT ISBN, LC, LCSource FROM main WHERE ISBN LIKE isbn, or None.
\* A failing execute (no table main, a locked or damaged file) is None too.
Query(d, isbn, execOK) ==
  IF ~d.table \/ ~execOK THEN NoEntry
  ELSE LET entry == SelectLike(d.rows, isbn)
       IN IF Len(entry) = 0 THEN NoEntry ELSE entry[1]

\* INSERT OR IGNORE INTO main VALUES (...): the row is ignored only when it
\* conflicts with a row on a uniqueness constraint of the table.
Conflict(rows, rec) ==
  \E i \in 1..Len(rows) : \E c \in UniqueColumns : rows[i][c] = rec[c]

\* sql_tableinsert followed by commit, on an open connection.
sql_tableinsert(d, rec, execOK, commitOK) ==
  IF ~d.table \/ ~execOK \/ ~commitOK THEN d
  ELSE IF Conflict(d.rows, rec) THEN d
  ELSE [d EXCEPT !.rows = Append(@, rec)]

(***************************************************************************)
(* Source adapters.  Each is a function of what the remote service sends   *)
(* back; its result is an LCC string, None, or Raise when an exception     *)
(* leaves the function.                                                    *)
(***************************************************************************)
Raise == "RAISE"

\* A missing XML attribute, JSON key or HTML attribute.
NoAttr == "NOATTR"

\* Depth at which Python gives up a recursion (RecursionError).
MaxDepth == 3

(* ---- OCLC Classify: get_oclc_data ------------------------------------ *)
\* What the server answers to one request.  net: the transport outcome; xml:
\* whether the body parses; response/code: the <response code=...> element;
\* recommendations, lcc, mostPopular: the recommended classification (the nsfa
\* attribute of each <mostPopular> under the first <lcc>); works, work: the
\* <works> element and the wi / schemes attributes of each <work>.
OclcReply(net, xml, response, code, recommendations, lcc, mostPopular, works, work) ==
  [net |-> net, xml |-> xml, response |-> response, code |-> code,
   recommendations |-> recommendations, lcc |-> lcc, mostPopular |-> mostPopular,
   works |-> works, work |-> work]

WorkIds == {"w1", "w2"}

\* The first <work> with a wi attribute and a schemes attribute holding LCC;
\* 0 when there is none.  schemes is the set of the scheme names in the
\* attribute, {NoAttr} when the work has no such attribute.
FirstLccWork(work) ==
  LET ok(i) == work[i].wi /= NoAttr /\ NoAttr \notin work[i].schemes
               /\ "LCC" \in work[i].schemes
  IN IF \E i \in 1..Len(work) : ok(i)
       THEN CHOOSE i \in 1..Len(work) : ok(i) /\ \A j \in 1..(i-1) : ~ok(j)
       ELSE 0

RECURSIVE get_oclc_data(_, _, _, _)
\* srv: the server's answer to each request ("isbn" for the ISBN query, a work
\* identifier for a wi query); depth: the recursion depth left.
get_oclc_data(parmtype, parmvalue, srv, depth) ==
  LET r == srv[IF parmtype = "isbn" THEN "isbn" ELSE parmvalue]
      mp == r.mostPopular
      w == FirstLccWork(r.work)
      lcc_value ==
        IF r.code \in {"0", "2"} THEN
          IF ~r.recommendations THEN Raise
          ELSE IF ~r.lcc \/ Len(mp) = 0 THEN None
          ELSE IF \E i \in 1..Len(mp) : mp[i] = NoAttr THEN Raise
          ELSE mp[Len(mp)]
        ELSE IF r.code = "4" THEN
          IF ~r.works THEN Raise
          ELSE IF w = 0 THEN None
          ELSE get_oclc_data("wi", r.work[w].wi, srv, depth - 1)
        ELSE None
  IN IF depth = 0 THEN Raise
     ELSE IF r.net \in {"error", "http_error"} THEN None
     ELSE IF r.xml /= "ok" THEN Raise
     ELSE IF ~r.response \/ r.code = NoAttr THEN Raise
     ELSE IF lcc_value = Raise THEN Raise
     ELSE IF Truthy(lcc_value) THEN lcc_value ELSE None

(* ---- Harvard LibraryCloud: json_query and harvard_get ---------------- *)
\* net: transport outcome; body: "notjson", or the JSON value's type ("list",
\* "dict", "scalar"); empty: the list is empty; items: NoAttr (no key items),
\* "null", "nomods", "mods" (items.mods is one record) or "modslist" (several);
\* shape / classification: items.mods.classification, absent, a single entry or
\* a list of entries, each with '@authority' and '#text'.
HarvardReply(net, body, empty, items, shape, classification) ==
  [net |-> net, body |-> body, empty |-> empty, items |-> items,
   shape |-> shape, classification |-> classification]

\* json_query: the decoded record, "None", or Raise.
json_query(r) ==
  IF r.net \in {"error", "http_error"} THEN None
  ELSE IF r.body = "notjson" THEN None
  ELSE IF r.body = "list" THEN (IF r.empty THEN Raise ELSE "record")
  ELSE IF r.body = "dict" THEN "record"
  ELSE None

harvard_get(program, r) ==
  LET record_data == json_query(r)
      cls == r.classification
      h_lcc_j == cls[1]
  IN IF record_data = Raise THEN None
     ELSE IF record_data = None
       THEN (IF program = "lcc_simple" THEN None ELSE Raise)
     ELSE IF r.items = NoAttr
       THEN (IF program = "lcc_simple" THEN None ELSE Raise)
     ELSE IF r.items /= "mods" THEN None
     ELSE IF r.shape = "absent" THEN None
     ELSE IF Len(cls) = 0 THEN Raise
     ELSE IF h_lcc_j.authority = NoAttr THEN Raise
     ELSE IF h_lcc_j.authority /= "lcc" THEN None
     ELSE IF h_lcc_j.text = NoAttr THEN Raise
     ELSE h_lcc_j.text

(* ---- Library of Congress SRU: loc_search ----------------------------- *)
\* net: outcome of sruthi.searchretrieve; records: the records found, each
\* with datafield (NoAttr when the record has none) a sequence of fields
\* [tag, shape, subfield]: shape "single" when the field has one subfield (a
\* dict), "list" when it has several, "none" when it has no subfield.
LocReply(net, records) == [net |-> net, records |-> records]

RECURSIVE loc_fields(_)
loc_fields(fs) ==
  IF fs = <<>> THEN None
  ELSE LET x == Head(fs)
       IN IF x.tag = "050"
            THEN (IF x.shape = "single" /\ x.subfield[1].text /= NoAttr
                    THEN x.subfield[1].text ELSE None)
            ELSE loc_fields(Tail(fs))

loc_search(r) ==
  IF r.net = "error" THEN None
  ELSE IF Len(r.records) < 1 THEN None
  ELSE IF r.records[1].hasDatafield = FALSE THEN None
  ELSE loc_fields(r.records[1].datafield)

(* ---- Blacklight catalogues: get_blacklight --------------------------- *)
\* net: outcome of the search request; tags: the <a> elements of the result
\* page in document order, each [href, detail]: href is NoAttr (no href),
\* "catalog" (contains '/catalog/') or "other"; detail is the librarian view
\* of that link, [net, fields]; a field block is [tag_ind, hasSubfields,
\* subfields]: tag_ind NoAttr when the block has no tag_ind div, subfields the
\* pieces of the subfields text after the split, each [code, text].
BlacklightReply(net, tags) == [net |-> net, tags |-> tags]

RECURSIVE first_subfield_a(_)
\* loop over sub_list: the trimmed text of the first piece that starts with a
first_subfield_a(sub_list) ==
  IF sub_list = <<>> THEN None
  ELSE IF Head(sub_list).code = "a" THEN Head(sub_list).text
  ELSE first_subfield_a(Tail(sub_list))

RECURSIVE marc_fields(_, _)
\* for marcfield in fields, carrying calltext
marc_fields(fields, calltext) ==
  IF fields = <<>> THEN calltext
  ELSE LET f == Head(fields)
       IN IF f.tag_ind /= "050" \/ ~f.hasSubfields
            THEN marc_fields(Tail(fields), calltext)
            ELSE marc_fields(Tail(fields), first_subfield_a(f.subfields))

RECURSIVE result_links(_, _)
\* for tag in tags, carrying calltext
result_links(tags, calltext) ==
  IF tags = <<>> THEN calltext
  ELSE LET t == Head(tags)
       IN IF t.href = NoAttr THEN None
          ELSE IF t.href /= "catalog" \/ t.detail.net = "error"
            THEN result_links(Tail(tags), calltext)
          ELSE result_links(Tail(tags), marc_fields(t.detail.fields, calltext))

get_blacklight(r) ==
  IF r.net = "error" THEN None ELSE result_links(r.tags, None)

(***************************************************************************)
(* What the services may answer in a run.  l is the call number the        *)
(* service holds for the book.                                             *)
(***************************************************************************)
OclcDown == OclcReply("error", "ok", FALSE, NoAttr, FALSE, FALSE, <<>>, FALSE, <<>>)

OclcHttpError == OclcReply("http_error", "ok", FALSE, NoAttr, FALSE, FALSE, <<>>, FALSE, <<>>)

OclcGarbage == OclcReply("ok", "unparseable", FALSE, NoAttr, FALSE, FALSE, <<>>, FALSE, <<>>)

OclcNoMatch == OclcReply("ok", "ok", TRUE, "102", FALSE, FALSE, <<>>, FALSE, <<>>)

OclcSingle(l) == OclcReply("ok", "ok", TRUE, "2", TRUE, TRUE, <<l>>, FALSE, <<>>)

OclcNoLcc == OclcReply("ok", "ok", TRUE, "0", TRUE, FALSE, <<>>, FALSE, <<>>)

OclcMulti ==
  OclcReply("ok", "ok", TRUE, "4", FALSE, FALSE, <<>>, TRUE,
            << [wi |-> "w1", schemes |-> {"DDC"}],
               [wi |-> "w2", schemes |-> {"DDC", "LCC"}] >>)

\* A server: its answer to the ISBN query and to each work query.
OclcServer(isbn, w1, w2) == [q \in {"isbn"} \cup WorkIds |->
  IF q = "isbn" THEN isbn ELSE IF q = "w1" THEN w1 ELSE w2]

OclcServers(l) ==
  { OclcServer(OclcDown, OclcDown, OclcDown),
    OclcServer(OclcHttpError, OclcDown, OclcDown),
    OclcServer(OclcGarbage, OclcDown, OclcDown),
    OclcServer(OclcNoMatch, OclcNoMatch, OclcNoMatch),
    OclcServer(OclcNoLcc, OclcNoMatch, OclcNoMatch),
    OclcServer(OclcSingle(l), OclcNoMatch, OclcNoMatch),
    OclcServer(OclcMulti, OclcNoMatch, OclcSingle(l)),
    OclcServer(OclcMulti, OclcSingle(l), OclcNoMatch) }

HarvardReplies(l) ==
  { HarvardReply("error", "notjson", FALSE, NoAttr, "absent", <<>>),
    HarvardReply("http_error", "notjson", FALSE, NoAttr, "absent", <<>>),
    HarvardReply("ok", "notjson", FALSE, NoAttr, "absent", <<>>),
    HarvardReply("ok", "dict", FALSE, "null", "absent", <<>>),
    HarvardReply("ok", "dict", FALSE, "mods", "absent", <<>>),
    HarvardReply("ok", "dict", FALSE, "mods", "single",
                 << [authority |-> "lcc", text |-> l] >>),
    HarvardReply("ok", "list", FALSE, "mods", "list",
                 << [authority |-> "lcc", text |-> l], [authority |-> "ddc", text |-> "813"] >>),
    HarvardReply("ok", "dict", FALSE, "mods", "list",
                 << [authority |-> "ddc", text |-> "813"], [authority |-> "lcc", text |-> l] >>) }

LocField(tag, shape, subfield) == [tag |-> tag, shape |-> shape, subfield |-> subfield]

LocRecord(hasDatafield, datafield) == [hasDatafield |-> hasDatafield, datafield |-> datafield]

LocReplies(l) ==
  { LocReply("error", <<>>),
    LocReply("ok", <<>>),
    LocReply("ok", << LocRecord(FALSE, <<>>) >>),
    LocReply("ok", << LocRecord(TRUE, << LocField("245", "single", << [code |-> "a", text |-> "A title"] >>) >>) >>),
    LocReply("ok", << LocRecord(TRUE, << LocField("245", "single", << [code |-> "a", text |-> "A title"] >>),
                                         LocField("050", "single", << [code |-> "a", text |-> l] >>) >>) >>),
    LocReply("ok", << LocRecord(TRUE, << LocField("050", "list", << [code |-> "a", text |-> l],
                                                                    [code |-> "b", text |-> "2014"] >>) >>) >>) }

BlField(tag_ind, hasSubfields, subfields) ==
  [tag_ind |-> tag_ind, hasSubfields |-> hasSubfields, subfields |-> subfields]

BlTag(href, net, fields) == [href |-> href, detail |-> [net |-> net, fields |-> fields]]

BlacklightReplies(l) ==
  { BlacklightReply("error", <<>>),
    BlacklightReply("ok", <<>>),
    BlacklightReply("ok", << BlTag("other", "ok", <<>>) >>),
    BlacklightReply("ok", << BlTag("catalog", "error", <<>>) >>),
    BlacklightReply("ok", << BlTag("catalog", "ok",
        << BlField("245", TRUE, << [code |-> "a", text |-> "A title"] >>) >>) >>),
    BlacklightReply("ok", << BlTag("other", "ok", <<>>), BlTag("catalog", "ok",
        << BlField(NoAttr, FALSE, <<>>),
           BlField("050", TRUE, << [code |-> "a", text |-> l], [code |-> "b", text |-> "2014"] >>) >>) >>),
    BlacklightReply("ok", << BlTag("catalog", "ok",
        << BlField("050", TRUE, << [code |-> "a", text |-> l] >>) >>),
        BlTag(NoAttr, "ok", <<>>) >>) }

(***************************************************************************)
(* The row loop (__main__ of main.py and of lcc_simple.py).                *)
(***************************************************************************)
\* The adapter chain of the row loop, in the order of the code.
Adapters ==
  << [name |-> "OCLC", kind |-> "oclc"],
     [name |-> "Harvard", kind |-> "harvard"],
     [name |-> "LofC", kind |-> "loc"],
     [name |-> "Stanford", kind |-> "blacklight"],
     [name |-> "Yale", kind |-> "blacklight"],
     [name |-> "JHU", kind |-> "blacklight"],
     [name |-> "Columbia", kind |-> "blacklight"],
     [name |-> "Cornell", kind |-> "blacklight"],
     [name |-> "PennState", kind |-> "blacklight"],
     [name |-> "NCSU", kind |-> "blacklight"],
     [name |-> "UMichigan", kind |-> "blacklight"],
     [name |-> "UWisc", kind |-> "blacklight"],
     [name |-> "IndianaU", kind |-> "blacklight"],
     [name |-> "Duke", kind |-> "blacklight"] >>

AdapterNames == { Adapters[i].name : i \in 1..Len(Adapters) }

\* The call number each service holds for a book.
Holding(i) == IF i % 2 = 1 THEN "PS3623.A59" ELSE "QA76.73"

\* The services that hold the books of the input files; the others answer, but
\* never with a call number.
Holders == {"OCLC", "Harvard", "LofC", "Stanford", "Cornell", "Duke"}

\* Every result the i-th adapter can give, over what its service may answer.
Fetch(i, prog, isbn) ==
  LET kind == Adapters[i].kind
      l == Holding(i)
      all == CASE kind = "oclc" ->
                    { get_oclc_data("isbn", isbn, srv, MaxDepth) : srv \in OclcServers(l) }
               [] kind = "harvard" -> { harvard_get(prog, r) : r \in HarvardReplies(l) }
               [] kind = "loc" -> { loc_search(r) : r \in LocReplies(l) }
               [] kind = "blacklight" -> { get_blacklight(r) : r \in BlacklightReplies(l) }
  IN IF Adapters[i].name \in Holders THEN all ELSE { res \in all : ~Truthy(res) }

\* Rows an input file may hold (csv.reader gives [] for a blank line).
InputRows ==
  { <<"9780143127741">>, <<"0-8044-2957-X">>,
    <<"9780143127742">>, <<"Title">>, <<>>,
    <<"Title", "080442957X">>, <<"", "080442957X">> }

\* The settings of a run: lcc_simple.py fixes them, main.py asks the user: a
\* plain list (ISBN in the first column, no header line) or a report (ISBN in
\* the second column under one header line), each in either output mode, or a
\* wide report (ISBN in the fourth column).
Settings ==
  { [program |-> "lcc_simple", outchoice |-> 2, colchoice |-> 0, lineskip |-> 0],
    [program |-> "main", outchoice |-> 1, colchoice |-> 0, lineskip |-> 2],
    [program |-> "main", outchoice |-> 1, colchoice |-> 3, lineskip |-> 0] }
  \cup { [program |-> "main", outchoice |-> o, colchoice |-> c, lineskip |-> c] :
           o \in {1, 2}, c \in {0, 1} }

\* Rows a file may hold above its data: a heading, or a line that looks like data.
HeaderRows == { <<"Title">>, <<"Title", "080442957X">>, <<"9780143127741">> }

VARIABLES
  program,        \* "main" or "lcc_simple"
  outchoice,      \* 1: repeat the input row, otherwise the 4-column tsv
  colchoice,      \* 0-based index of the ISBN column
  lineskip,       \* header lines to skip
  pc,             \* where the run is
  nread,          \* rows read so far, over all runs
  row, original_isbn, fixed_isbn, sql_entry, lcc, source,
  calls,          \* adapters called for the current row, with their results
  outfile,        \* rows written to the output file
  db,             \* the cache file
  fault,          \* the exception that ended the run, "none" otherwise
  existed,        \* whether the cache file existed when the run started
  learned,        \* per ISBN, the first resolution by a remote adapter
  ioerror,        \* some sqlite call has failed for a reason outside the program
  log,            \* error entries the row loop and the cache functions have appended
                  \* to the log file since the current row was read
  headers,        \* the header rows this run has read, in input order
  flushed,        \* how many rows of outfile have reached the disk
  fx_pc,          \* fix_isbn on its own: "off", or how far the calls have come
  fx_in,          \* the characters given to fix_isbn
  fx_out,         \* what fix_isbn returned for fx_in, <<>> for None
  fx_again,       \* what fix_isbn returned for fx_out
  ad_pc,          \* an adapter on its own: "off", "call" or "done"
  ad_kind,        \* which adapter function is called
  ad_reply,       \* what its service answers
  ad_result,      \* what the adapter returned, Raise for an exception
  ad_requests,    \* the requests get_oclc_data has issued, in order
  runs            \* two runs on one cache file: where each is in its pass and
                  \* its fixed_isbn, sql_entry, lcc and source; <<>> otherwise

vars == << program, outchoice, colchoice, lineskip, pc, nread, row, original_isbn,
           fixed_isbn, sql_entry, lcc, source, calls, outfile, db, fault,
           existed, learned, ioerror, log, headers, flushed,
           fx_pc, fx_in, fx_out, fx_again,
           ad_pc, ad_kind, ad_reply, ad_result, ad_requests, runs >>

fixvars == << fx_pc, fx_in, fx_out, fx_again >>

advars == << ad_pc, ad_kind, ad_reply, ad_result, ad_requests >>

config == << program, outchoice, colchoice, lineskip >>

rowvars == << row, original_isbn, fixed_isbn, sql_entry, lcc, source, calls >>

\* Nothing learned yet for an ISBN; otherwise the call number, the source and
\* the number of the input row that learned them.
NotLearned == [LC |-> None, LCSource |-> None, at |-> 0]

CanonicalISBNs == { Str(fix_isbn(Chars(s))) : s \in {t \in Strings : fix_isbn(Chars(t)) /= <<>>} }

\* The state of the program before its first run.
InitRun ==
  /\ \E c \in Settings :
       /\ program = c.program
       /\ outchoice = c.outchoice
       /\ colchoice = c.colchoice
       /\ lineskip = c.lineskip
  /\ pc = "start"
  /\ nread = 0
  /\ row = <<>>
  /\ original_isbn = None
  /\ fixed_isbn = None
  /\ sql_entry = NoEntry
  /\ lcc = None
  /\ source = None
  /\ calls = <<>>
  /\ outfile = <<>>
  /\ db = sqlitefile
  /\ fault = "none"
  /\ existed = FALSE
  /\ learned = [k \in CanonicalISBNs |-> NotLearned]
  /\ ioerror = FALSE
  /\ log = <<>>
  /\ headers = <<>>
  /\ flushed = 0

\* No adapter is called on its own.
AdaptersOff ==
  /\ ad_pc = "off"
  /\ ad_kind = "none"
  /\ ad_reply = <<>>
  /\ ad_result = None
  /\ ad_requests = <<>>

Init ==
  /\ InitRun
  /\ fx_pc = "off"
  /\ fx_in = <<>>
  /\ fx_out = <<>>
  /\ fx_again = <<>>
  /\ AdaptersOff
  /\ runs = <<>>

\* An exception leaves the script: the run ends there.
Crash(why) == pc' = "crashed" /\ fault' = why

\* Start of the run: main.py creates the cache file when it is absent;
\* lcc_simple.py only sets the path.
CreatesCache(prog) == prog = "main"

Startup ==
  /\ pc = "start"
  /\ UNCHANGED << fixvars, advars, runs >>
  /\ UNCHANGED << config, nread, rowvars, outfile, existed, learned, log, headers, flushed >>
  /\ IF CreatesCache(program) /\ db.file = "absent"
       THEN \E connOK, execOK \in BOOLEAN :
              /\ ioerror' = (ioerror \/ ~connOK \/ ~execOK)
              /\ IF connOK
                   THEN /\ db' = sqlite_create(db, execOK)
                        /\ pc' = "headers"
                        /\ fault' = fault
                   ELSE /\ Crash("sqlite_create")
                        /\ db' = db
       ELSE /\ pc' = "headers"
            /\ UNCHANGED << db, fault, ioerror >>

\* Header rows written in either output mode.
HeaderOutAlways(out, hs) == out \o hs

\* if outchoice == 1: writer.writerow(row1), for each header row in turn
HeaderOut(out, hs) == IF outchoice = 1 THEN out \o hs ELSE out

\* for i in range(1, lineskip+1): row1 = next(reader); written in repeat mode,
\* not flushed.  The file holds k rows for the loop to read; when k < lineskip
\* next() raises StopIteration on the exhausted reader and the files are closed.
SkipHeaders ==
  /\ pc = "headers"
  /\ UNCHANGED << fixvars, advars, runs >>
  /\ UNCHANGED << config, rowvars, db, existed, learned, ioerror, log >>
  /\ IF lineskip = 0
       THEN /\ pc' = "read"
            /\ UNCHANGED << nread, outfile, fault, headers, flushed >>
       ELSE \E k \in 0..lineskip : \E hs \in [1..k -> HeaderRows] :
              /\ nread + k <= MaxRows
              /\ nread' = nread + k
              /\ headers' = hs
              /\ outfile' = HeaderOut(outfile, hs)
              /\ IF k < lineskip
                   THEN /\ Crash("StopIteration")
                        /\ flushed' = Len(outfile')
                   ELSE /\ pc' = "read"
                        /\ fault' = fault
                        /\ flushed' = flushed

\* if len(row) < colchoice-1
NotEnoughColumns(r, col) == Len(r) < col - 1

\* if not row[0] or row[0] == ''
MissingISBN(r, col) == r[1] = ""

\* The raw token in the place of its normalised form.
FixedRaw(token) == token

\* fix_isbn on a token, as a string; None when it returns None.
Fixed(token) ==
  LET f == fix_isbn(Chars(token)) IN IF f = <<>> THEN None ELSE Str(f)

\* writer.writerow(row + ['','']) in repeat mode, nothing otherwise.
WriteInvalid(r) == IF outchoice = 1 THEN Append(outfile, r \o <<"", "">>) ELSE outfile

\* One pass of "for row in reader" up to the cache lookup: the guards on the
\* row and the normalisation of its ISBN.  The reader is at the end of the
\* file, or gives the next row.  Each writerow here is followed by a flush;
\* leaving the with block closes the output file.
ReadRow ==
  /\ pc = "read"
  /\ UNCHANGED << fixvars, advars, runs >>
  /\ UNCHANGED << config, db, existed, learned, ioerror, calls, source, sql_entry,
                  headers >>
  /\ \/ /\ pc' = "done"
        /\ UNCHANGED << nread, row, original_isbn, fixed_isbn, lcc, outfile, fault, log >>
     \/ /\ nread < MaxRows
        /\ nread' = nread + 1
        /\ \E r \in InputRows :
             /\ row' = r
             /\ IF r = <<>>
                  THEN \* row[0] raises IndexError: continue
                       /\ pc' = "read"
                       /\ log' = <<>>
                       /\ UNCHANGED << original_isbn, fixed_isbn, lcc, outfile, fault >>
                ELSE IF NotEnoughColumns(r, colchoice)
                  THEN /\ pc' = "read"
                       /\ lcc' = None
                       /\ log' = <<"Not enough columns">>
                       /\ UNCHANGED << original_isbn, fixed_isbn, outfile, fault >>
                ELSE IF MissingISBN(r, colchoice)
                  THEN /\ pc' = "read"
                       /\ lcc' = None
                       /\ log' = <<"Missing ISBN">>
                       /\ outfile' = WriteInvalid(r)
                       /\ UNCHANGED << original_isbn, fixed_isbn, fault >>
                ELSE IF Len(r) < colchoice + 1
                  THEN \* row[colchoice] raises IndexError
                       /\ Crash("IndexError")
                       /\ lcc' = None
                       /\ log' = <<>>
                       /\ UNCHANGED << original_isbn, fixed_isbn, outfile >>
                ELSE IF StrLen(r[colchoice + 1]) < 10 /\ outchoice = 1
                  THEN /\ pc' = "read"
                       /\ lcc' = None
                       /\ original_isbn' = r[colchoice + 1]
                       /\ log' = <<"Starting isbn too short">>
                       /\ outfile' = WriteInvalid(r)
                       /\ UNCHANGED << fixed_isbn, fault >>
                ELSE /\ lcc' = None
                     /\ original_isbn' = r[colchoice + 1]
                     /\ fixed_isbn' = Fixed(r[colchoice + 1])
                     /\ fault' = fault
                     /\ log' = (IF StrLen(r[colchoice + 1]) < 10
                                  THEN <<"Starting isbn too short">> ELSE <<>>)
                               \o (IF fixed_isbn' = None
                                     THEN <<"Unable to fix bad ISBN">> ELSE <<>>)
                     /\ IF fixed_isbn' = None
                          THEN /\ pc' = "read"
                               /\ outfile' = WriteInvalid(r)
                          ELSE /\ pc' = "lookup"
                               /\ outfile' = outfile
  /\ flushed' = IF outfile' /= outfile \/ pc' \in {"done", "crashed"}
                  THEN Len(outfile') ELSE flushed

\* sqlite_search(dbfile, isbn) of main.py: <<cache file after, entry>>.
\* A connect that fails is logged and gives None.
sqlite_search(d, isbn, connOK, execOK) ==
  IF ~connOK THEN << d, NoEntry >>
  ELSE << connect(d), Query(connect(d), isbn, execOK) >>

\* sqlite_search of lcc_simple.py when its first connect fails: it calls
\* sqlite_create and connects again, neither inside a try.
sqlite_search_retry(d, isbn, createOK, execOK) ==
  LET d2 == sqlite_create(d, createOK)
  IN << d2, Query(d2, isbn, execOK) >>

\* A cache hit that reads the wrong column of the entry.
HitLccFromSource(entry, l) == IF entry /= NoEntry THEN entry.LCSource ELSE l

\* if sql_entry: lcc = sql_entry[1]
HitLcc(entry, l) == IF entry /= NoEntry THEN entry.LC ELSE l

\* if sql_entry: source = sql_entry[2]
HitSource(entry, src) == IF entry /= NoEntry THEN entry.LCSource ELSE src

\* sql_entry = sqlite_search(...); if sql_entry: lcc, source = its columns.
Lookup ==
  /\ pc = "lookup"
  /\ UNCHANGED << fixvars, advars, runs >>
  /\ UNCHANGED << config, nread, row, original_isbn, fixed_isbn, outfile, existed, learned,
                  headers >>
  /\ calls' = <<>>
  /\ \E connOK, execOK \in BOOLEAN :
       \/ /\ connOK \/ program = "main"
          /\ LET res == sqlite_search(db, fixed_isbn, connOK, execOK)
             IN /\ db' = res[1]
                /\ sql_entry' = res[2]
                /\ lcc' = HitLcc(res[2], lcc)
                /\ source' = HitSource(res[2], source)
          /\ pc' = "chain"
          /\ fault' = fault
          /\ flushed' = flushed
          /\ ioerror' = (ioerror \/ ~connOK \/ ~execOK)
          /\ log' = IF connOK THEN log ELSE Append(log, "Unable to open sqlite file")
       \/ /\ ~connOK /\ program = "lcc_simple"
          /\ ioerror' = TRUE
          /\ \E conn2OK, createOK \in BOOLEAN :
               IF conn2OK
                 THEN LET res == sqlite_search_retry(db, fixed_isbn, createOK, execOK)
                      IN /\ db' = res[1]
                         /\ sql_entry' = res[2]
                         /\ lcc' = HitLcc(res[2], lcc)
                         /\ source' = HitSource(res[2], source)
                         /\ pc' = "chain"
                         /\ fault' = fault
                         /\ flushed' = flushed
                         /\ log' = Append(log, "Unable to open sqlite file")
                 ELSE /\ Crash("sqlite_search")
                      /\ sql_entry' = NoEntry
                      /\ flushed' = Len(outfile)
                      /\ UNCHANGED << db, lcc, source, log >>

\* if not lcc: before each adapter call
NeedsAdapter(l) == ~Truthy(l)

\* A chain whose second and third blocks are exchanged.
AdapterAtSwapped(i) == IF i = 2 THEN 3 ELSE IF i = 3 THEN 2 ELSE i

\* The adapter called by the i-th block of the chain.
AdapterAt(i) == i

\* A chain that names the source only while none is set.
SourceFirstOnly(i, res, src) ==
  IF Truthy(res) /\ src = None THEN Adapters[AdapterAt(i)].name ELSE src

\* if lcc: source = '<name>', after the call of the i-th block
SourceAfter(i, res, src) == IF Truthy(res) THEN Adapters[AdapterAt(i)].name ELSE src

RECURSIVE Chain(_, _)
\* The blocks i.. of the chain "if not lcc: lcc = <adapter>(fixed_isbn); if lcc:
\* source = <name>", from st = [lcc, source, calls, fault]: every way they can
\* end, over the results the adapters can give.  A block whose guard is false
\* calls nothing; an exception ends the chain.
Chain(i, st) ==
  IF i > Len(Adapters) THEN {st}
  ELSE IF ~NeedsAdapter(st.lcc) THEN Chain(i + 1, st)
  ELSE LET a == AdapterAt(i)
           called(res) == Append(st.calls, [name |-> Adapters[a].name, result |-> res])
       IN UNION { IF res = Raise
                    THEN { [st EXCEPT !.calls = called(res), !.fault = Adapters[a].name] }
                    ELSE Chain(i + 1, [st EXCEPT !.lcc = res,
                                                 !.source = SourceAfter(i, res, st.source),
                                                 !.calls = called(res)])
                  : res \in Fetch(a, program, fixed_isbn) }

\* The adapter chain of one row.
RunChain ==
  /\ pc = "chain"
  /\ UNCHANGED << fixvars, advars, runs >>
  /\ UNCHANGED << config, nread, row, original_isbn, fixed_isbn, sql_entry, outfile,
                  db, existed, ioerror, log, headers >>
  /\ \E end \in Chain(1, [lcc |-> lcc, source |-> source, calls |-> <<>>, fault |-> "none"]) :
       /\ lcc' = end.lcc
       /\ source' = end.source
       /\ calls' = end.calls
       /\ IF end.fault /= "none"
            THEN Crash(end.fault) /\ flushed' = Len(outfile)
            ELSE pc' = "write" /\ fault' = fault /\ flushed' = flushed
       /\ learned' = IF /\ end.fault = "none" /\ Truthy(end.lcc) /\ end.calls /= <<>>
                        /\ learned[fixed_isbn] = NotLearned
                       THEN [learned EXCEPT ![fixed_isbn] =
                               [LC |-> end.lcc, LCSource |-> end.source, at |-> nread]]
                       ELSE learned

\* An output row that never carries the call number.
newdata_notfound(r, orig, fixed, l, src) ==
  IF outchoice = 1 THEN r \o <<"", "NOTFOUND">> ELSE << orig, "", fixed, "NOTFOUND" >>

\* The output row of a row whose ISBN normalised.
newdata(r, orig, fixed, l, src) ==
  IF outchoice = 1 /\ ~Truthy(l) THEN r \o <<"", "NOTFOUND">>
  ELSE IF outchoice = 1 THEN r \o << l, src >>
  ELSE IF Truthy(l) THEN << orig, l, fixed, src >>
  ELSE << orig, "", fixed, "NOTFOUND" >>

\* writer.writerow(newdata); result.flush()
WriteRow ==
  /\ pc = "write"
  /\ UNCHANGED << fixvars, advars, runs >>
  /\ outfile' = Append(outfile, newdata(row, original_isbn, fixed_isbn, lcc, source))
  /\ flushed' = Len(outfile')
  /\ pc' = "insert"
  /\ UNCHANGED << config, nread, rowvars, db, fault, existed, learned, ioerror, log,
                  headers >>

\* An insert guard that forgets to look at the call number.
ShouldInsertMisses(l, entry) == entry = NoEntry

\* An insert guard that forgets the cache hit.
ShouldInsertAnyLcc(l, entry) == Truthy(l)

\* if lcc and not sql_entry
ShouldInsert(l, entry) == Truthy(l) /\ entry = NoEntry

\* newdata_dict = {"ISBN": fixed_isbn, "LC": lcc, "LCSource": source}
newdata_dict == [ISBN |-> fixed_isbn, LC |-> lcc, LCSource |-> source]

\* Error entries of the insert at the end of the pass: the connect that
\* fails, the INSERT that sql_tableinsert reports, the commit that fails.
InsertLog(d, connOK, execOK, commitOK) ==
  IF ~connOK THEN <<"Unable to open to add new data">>
  ELSE (IF ~d.table \/ ~execOK THEN <<"TableInsert Error">> ELSE <<>>)
       \o (IF ~commitOK THEN <<"Unable to save new data">> ELSE <<>>)

\* The end of the pass: the cache insert (connect, sql_tableinsert, commit; a
\* failure of any of them is logged and the run goes on), then the log entry
\* of a row that found nothing.
CacheInsert ==
  /\ pc = "insert"
  /\ UNCHANGED << fixvars, advars, runs >>
  /\ pc' = "read"
  /\ UNCHANGED << config, nread, rowvars, outfile, fault, existed, learned, headers,
                  flushed >>
  /\ IF ShouldInsert(lcc, sql_entry)
       THEN \E connOK, execOK, commitOK \in BOOLEAN :
              /\ db' = IF connOK
                         THEN sql_tableinsert(connect(db), newdata_dict, execOK, commitOK)
                         ELSE db
              /\ ioerror' = (ioerror \/ ~connOK \/ ~execOK \/ ~commitOK)
              /\ log' = log \o InsertLog(db, connOK, execOK, commitOK)
       ELSE /\ UNCHANGED << db, ioerror >>
            /\ log' = IF Truthy(lcc) THEN log ELSE Append(log, "Unable to find LCC")

\* The program is started again on another input file next to the same cache
\* file, with the same settings.
Restart ==
  /\ pc \in {"done", "crashed"}
  /\ UNCHANGED << fixvars, advars, runs >>
  /\ nread < MaxRows
  /\ pc' = "start"
  /\ row' = <<>>
  /\ original_isbn' = None
  /\ fixed_isbn' = None
  /\ sql_entry' = NoEntry
  /\ lcc' = None
  /\ source' = None
  /\ calls' = <<>>
  /\ outfile' = <<>>
  /\ log' = <<>>
  /\ headers' = <<>>
  /\ flushed' = 0
  /\ fault' = "none"
  /\ existed' = (db.file = "present")
  /\ UNCHANGED << config, nread, db, learned, ioerror >>

Next ==
  \/ Startup
  \/ SkipHeaders
  \/ ReadRow
  \/ Lookup
  \/ RunChain
  \/ WriteRow
  \/ CacheInsert
  \/ Restart

Spec == Init /\ [][Next]_vars

(***************************************************************************)
(* fix_isbn on its own: an input is drawn, fix_isbn is applied to it, and  *)
(* then to its own result.                                                 *)
(***************************************************************************)
\* The first nine characters of ISBN-10 candidates.
Stems9 ==
  { <<"0","8","0","4","4","2","9","5","7">>,
    <<"0","1","4","3","1","2","7","7","4">>,
    <<"0","0","0","0","0","0","0","0","0">> }

\* The first twelve characters of ISBN-13 candidates.
Stems12 ==
  { <<"9","7","8","0","1","4","3","1","2","7","7","4">>,
    <<"9","7","9","0","1","4","3","1","2","7","7","4">>,
    <<"1","2","3","0","1","4","3","1","2","7","7","4">> }

\* Every stem with every last character: one of them is the check digit.
PlainInputs ==
  { st \o <<d>> : st \in Stems9 \cup Stems12, d \in Digits \cup {"X", "x"} }

\* What fix_isbn is given: plain strings, the same with a hyphen after the
\* first character, after a label, without their last character, '', and
\* ISBN-10 candidates after a shelf number or a volume number.
FixInputs ==
  PlainInputs
  \cup { <<cs[1], "-">> \o Tail(cs) : cs \in PlainInputs }
  \cup { <<"I", "S", "B", "N", " ">> \o cs : cs \in PlainInputs }
  \cup { SubSeq(cs, 1, Len(cs) - 1) : cs \in PlainInputs }
  \cup { <<>> }
  \cup { <<"1", "2", "3", " ">> \o cs : cs \in { p \in PlainInputs : Len(p) = 10 } }
  \cup { <<"v", ".", "2", " ">> \o cs : cs \in { p \in PlainInputs : Len(p) = 10 } }

InitFix ==
  /\ InitRun
  /\ program = "main" /\ outchoice = 2 /\ colchoice = 0 /\ lineskip = 0
  /\ fx_pc = "input"
  /\ fx_in \in FixInputs
  /\ fx_out = <<>>
  /\ fx_again = <<>>
  /\ AdaptersOff
  /\ runs = <<>>

\* fixed_isbn = fix_isbn(row[colchoice])
FixOnce ==
  /\ fx_pc = "input"
  /\ fx_out' = fix_isbn(fx_in)
  /\ fx_pc' = "fixed"
  /\ UNCHANGED << fx_in, fx_again, config, pc, nread, rowvars, outfile, db, fault,
                  existed, learned, ioerror, log, headers, flushed, advars, runs >>

\* fix_isbn applied to a value it returned
FixAgain ==
  /\ fx_pc = "fixed"
  /\ fx_out /= <<>>
  /\ fx_again' = fix_isbn(fx_out)
  /\ fx_pc' = "refixed"
  /\ UNCHANGED << fx_in, fx_out, config, pc, nread, rowvars, outfile, db, fault,
                  existed, learned, ioerror, log, headers, flushed, advars, runs >>

NextFix ==
  \/ FixOnce
  \/ FixAgain

SpecFix == InitFix /\ [][NextFix]_vars

(***************************************************************************)
(* The adapters on their own: a service answer is drawn and the adapter    *)
(* function is applied to it.                                              *)
(***************************************************************************)
RECURSIVE oclc_requests(_, _, _, _)
\* The requests.get calls of get_oclc_data(parmtype, parmvalue), its own and
\* those of the calls it makes, in order: under respCode '4' the call
\* get_oclc_data('wi', m_wi) for the first work with LCC, whatever parmtype is.
oclc_requests(parmtype, parmvalue, srv, depth) ==
  LET r == srv[IF parmtype = "isbn" THEN "isbn" ELSE parmvalue]
      w == FirstLccWork(r.work)
  IN IF depth = 0 THEN <<>>
     ELSE << [parmtype |-> parmtype, parmvalue |-> parmvalue] >>
          \o (IF /\ r.net = "ok" /\ r.xml = "ok" /\ r.response
                  /\ r.code = "4" /\ r.works /\ w /= 0
                 THEN oclc_requests("wi", r.work[w].wi, srv, depth - 1)
                 ELSE <<>>)

\* A 'multiple works' answer with the given <work> elements.
OclcMultiOf(work) == OclcReply("ok", "ok", TRUE, "4", FALSE, FALSE, <<>>, TRUE, work)

\* A 'multiple works' answer without a <works> element.
OclcMultiNoWorks == OclcReply("ok", "ok", TRUE, "4", FALSE, FALSE, <<>>, FALSE, <<>>)

WorkLists ==
  { << [wi |-> "w1", schemes |-> {"DDC"}], [wi |-> "w2", schemes |-> {"DDC", "LCC"}] >>,
    << [wi |-> "w1", schemes |-> {"LCC"}], [wi |-> "w2", schemes |-> {"LCC"}] >>,
    << [wi |-> "w2", schemes |-> {"LCC"}], [wi |-> "w1", schemes |-> {"LCC"}] >>,
    << [wi |-> NoAttr, schemes |-> {"LCC"}], [wi |-> "w2", schemes |-> {"LCC"}] >>,
    << [wi |-> "w1", schemes |-> {NoAttr}], [wi |-> "w2", schemes |-> {"DDC"}] >>,
    <<>> }

\* What the Classify server may answer to one request.
OclcAnswers(l) ==
  { OclcDown, OclcNoMatch, OclcNoLcc, OclcSingle(l), OclcMultiNoWorks }
  \cup { OclcMultiOf(work) : work \in WorkLists }

\* Every server: an answer to the ISBN query and one to each work query.
OclcServersAll ==
  { OclcServer(a, b, c) : a \in OclcAnswers("Z1001"), b \in OclcAnswers(Holding(1)),
                          c \in OclcAnswers(Holding(2)) }

HarvardRepliesAll(l) ==
  HarvardReplies(l)
  \cup { HarvardReply("ok", "dict", FALSE, "mods", "single",
                       << [authority |-> "ddc", text |-> "813"] >>),
         HarvardReply("ok", "dict", FALSE, "mods", "list",
                       << [authority |-> "ddc", text |-> "813"],
                          [authority |-> "nlm", text |-> "W1"] >>),
         HarvardReply("ok", "dict", FALSE, "mods", "list",
                       << [authority |-> "ddc", text |-> "813"],
                          [authority |-> "lcc", text |-> l],
                          [authority |-> "lcc", text |-> "QA76.73"] >>) }

LocRepliesAll(l) ==
  LocReplies(l)
  \cup { LocReply("ok", << LocRecord(TRUE, << LocField("245", "single", << [code |-> "a", text |-> "A title"] >>),
                                              LocField("050", "list", << [code |-> "a", text |-> l],
                                                                         [code |-> "b", text |-> "2014"] >>) >>),
                           LocRecord(TRUE, << LocField("050", "single", << [code |-> "a", text |-> "QA76.73"] >>) >>) >>),
         LocReply("ok", << LocRecord(TRUE, << LocField("050", "none", <<>>) >>) >>) }

BlacklightRepliesAll(l) ==
  BlacklightReplies(l)
  \cup { \* a second record link with another call number
         BlacklightReply("ok", <<
           BlTag("catalog", "ok", << BlField("050", TRUE, << [code |-> "a", text |-> l] >>) >>),
           BlTag("catalog", "ok", << BlField("050", TRUE, << [code |-> "a", text |-> "QA76.73"] >>) >>) >>),
         \* a second record link whose 050 block has no subfield a
         BlacklightReply("ok", <<
           BlTag("catalog", "ok", << BlField("050", TRUE, << [code |-> "a", text |-> l] >>) >>),
           BlTag("catalog", "ok", << BlField("050", TRUE, << [code |-> "b", text |-> "2014"] >>) >>) >>),
         \* a second 050 block on the first record's page
         BlacklightReply("ok", <<
           BlTag("catalog", "ok", << BlField("050", TRUE, << [code |-> "a", text |-> l] >>),
                                     BlField("050", TRUE, << [code |-> "b", text |-> "2014"] >>) >>) >>),
         \* links that are not record links after the record link
         BlacklightReply("ok", <<
           BlTag("catalog", "ok", << BlField("245", TRUE, << [code |-> "a", text |-> "A title"] >>),
                                     BlField("050", TRUE, << [code |-> "a", text |-> l] >>) >>),
           BlTag("other", "ok", <<>>) >>) }

\* The answers each adapter function is tried on.
AdapterInputs(kind) ==
  CASE kind = "oclc" -> OclcServersAll
    [] kind = "harvard" -> HarvardRepliesAll(Holding(1))
    [] kind = "loc" -> LocRepliesAll(Holding(1))
    [] kind = "blacklight" -> BlacklightRepliesAll(Holding(1))

InitAdapters ==
  /\ InitRun
  /\ outchoice = 2 /\ colchoice = 0 /\ lineskip = 0
  /\ fx_pc = "off" /\ fx_in = <<>> /\ fx_out = <<>> /\ fx_again = <<>>
  /\ ad_pc = "call"
  /\ ad_kind \in {"oclc", "harvard", "loc", "blacklight"}
  /\ ad_kind /= "harvard" => program = "main"
  /\ ad_reply \in AdapterInputs(ad_kind)
  /\ ad_result = None
  /\ ad_requests = <<>>
  /\ runs = <<>>

\* What a call leaves alone.
AdapterCallFrame ==
  /\ ad_pc' = "done"
  /\ UNCHANGED << ad_kind, ad_reply, config, pc, nread, rowvars, outfile, db, fault,
                  existed, learned, ioerror, log, headers, flushed, fixvars, runs >>

\* lcc = get_oclc_data('isbn', fixed_isbn)
CallOclc ==
  /\ ad_pc = "call" /\ ad_kind = "oclc"
  /\ ad_result' = get_oclc_data("isbn", "9780143127741", ad_reply, MaxDepth)
  /\ ad_requests' = oclc_requests("isbn", "9780143127741", ad_reply, MaxDepth)
  /\ AdapterCallFrame

\* lcc = harvard_get(fixed_isbn)
CallHarvard ==
  /\ ad_pc = "call" /\ ad_kind = "harvard"
  /\ ad_result' = harvard_get(program, ad_reply)
  /\ ad_requests' = ad_requests
  /\ AdapterCallFrame

\* lcc = loc_search(fixed_isbn, LOC_Base)
CallLoc ==
  /\ ad_pc = "call" /\ ad_kind = "loc"
  /\ ad_result' = loc_search(ad_reply)
  /\ ad_requests' = ad_requests
  /\ AdapterCallFrame

\* lcc = get_blacklight(base_url1, institution, fixed_isbn)
CallBlacklight ==
  /\ ad_pc = "call" /\ ad_kind = "blacklight"
  /\ ad_result' = get_blacklight(ad_reply)
  /\ ad_requests' = ad_requests
  /\ AdapterCallFrame

NextAdapters ==
  \/ CallOclc
  \/ CallHarvard
  \/ CallLoc
  \/ CallBlacklight

SpecAdapters == InitAdapters /\ [][NextAdapters]_vars

(***************************************************************************)
(* Two runs of main.py started next to one cache file.  Each creates the   *)
(* cache file at its start when there is none and works through its rows;  *)
(* the lookup, the adapter chain with the output row, and the insert of a  *)
(* pass are separate steps, and the steps of the two runs interleave.  No  *)
(* sqlite call fails.                                                      *)
(***************************************************************************)
Runs == {1, 2}

\* A run that has not started yet.
NotStarted ==
  [pc |-> "start", fixed_isbn |-> None, sql_entry |-> NoEntry, lcc |-> None, source |-> None]

InitTwoRuns ==
  /\ InitRun
  /\ program = "main" /\ outchoice = 2 /\ colchoice = 0 /\ lineskip = 0
  /\ fx_pc = "off" /\ fx_in = <<>> /\ fx_out = <<>> /\ fx_again = <<>>
  /\ AdaptersOff
  /\ runs = [p \in Runs |-> NotStarted]

\* What a step of one of the two runs leaves alone.
TwoRunsFrame ==
  UNCHANGED << config, pc, row, original_isbn, fixed_isbn, sql_entry, lcc, source, calls,
               outfile, fault, existed, learned, ioerror, log, headers, flushed,
               fixvars, advars >>

\* if not os.path.exists(sqllite_fullpath): sqlite_create(sqllite_fullpath)
RunStartup(p) ==
  /\ runs[p].pc = "start"
  /\ db' = IF db.file = "absent" THEN sqlite_create(db, TRUE) ELSE db
  /\ runs' = [runs EXCEPT ![p] = [@ EXCEPT !.pc = "read"]]
  /\ nread' = nread
  /\ TwoRunsFrame

\* for row in reader, for a row whose ISBN normalises: lcc = None
RunReadRow(p) ==
  /\ runs[p].pc = "read"
  /\ nread < MaxRows
  /\ nread' = nread + 1
  /\ \E k \in CanonicalISBNs :
       runs' = [runs EXCEPT ![p] = [@ EXCEPT !.pc = "lookup", !.fixed_isbn = k,
                                             !.sql_entry = NoEntry, !.lcc = None]]
  /\ db' = db
  /\ TwoRunsFrame

\* sql_entry = sqlite_search(...); if sql_entry: lcc, source = its columns
RunLookup(p) ==
  /\ runs[p].pc = "lookup"
  /\ LET res == sqlite_search(db, runs[p].fixed_isbn, TRUE, TRUE)
     IN /\ db' = res[1]
        /\ runs' = [runs EXCEPT ![p] = [@ EXCEPT !.pc = "chain", !.sql_entry = res[2],
                                                  !.lcc = HitLcc(res[2], runs[p].lcc),
                                                  !.source = HitSource(res[2], runs[p].source)]]
  /\ nread' = nread
  /\ TwoRunsFrame

\* The adapter chain and the output row of the pass; an exception that leaves
\* an adapter ends the run.
RunChainOf(p) ==
  /\ runs[p].pc = "chain"
  /\ \E end \in Chain(1, [lcc |-> runs[p].lcc, source |-> runs[p].source,
                           calls |-> <<>>, fault |-> "none"]) :
       runs' = [runs EXCEPT ![p] = [@ EXCEPT !.pc = IF end.fault /= "none" THEN "crashed"
                                                    ELSE "insert",
                                             !.lcc = end.lcc, !.source = end.source]]
  /\ UNCHANGED << db, nread >>
  /\ TwoRunsFrame

\* if lcc and not sql_entry: connect, sql_tableinsert, commit
RunInsert(p) ==
  /\ runs[p].pc = "insert"
  /\ db' = IF ShouldInsert(runs[p].lcc, runs[p].sql_entry)
             THEN sql_tableinsert(connect(db),
                                  [ISBN |-> runs[p].fixed_isbn, LC |-> runs[p].lcc,
                                   LCSource |-> runs[p].source], TRUE, TRUE)
             ELSE db
  /\ runs' = [runs EXCEPT ![p] = [@ EXCEPT !.pc = "read"]]
  /\ nread' = nread
  /\ TwoRunsFrame

NextTwoRuns ==
  \E p \in Runs :
    \/ RunStartup(p)
    \/ RunReadRow(p)
    \/ RunLookup(p)
    \/ RunChainOf(p)
    \/ RunInsert(p)

SpecTwoRuns == InitTwoRuns /\ [][NextTwoRuns]_vars

(***************************************************************************)
(* The cache lookup on its own: a cache file with any rows whose keys are  *)
(* canonical ISBNs, and a pass that has come to its lookup.                *)
(***************************************************************************)
\* Rows in the cache file at most.
MaxCached == 2

\* The rows a cache file may hold.
CacheRows ==
  [ISBN : CanonicalISBNs, LC : {"PS3623.A59", "QA76.73"}, LCSource : {"OCLC", "Harvard"}]

CacheContents == UNION { [1..n -> CacheRows] : n \in 0..MaxCached }

InitLookup ==
  /\ \E c \in Settings :
       /\ c.outchoice = 2 /\ c.colchoice = 0 /\ c.lineskip = 0
       /\ program = c.program
       /\ outchoice = c.outchoice
       /\ colchoice = c.colchoice
       /\ lineskip = c.lineskip
  /\ pc = "lookup"
  /\ nread = 1
  /\ \E k \in CanonicalISBNs :
       /\ row = << k >>
       /\ original_isbn = k
       /\ fixed_isbn = k
  /\ sql_entry = NoEntry
  /\ lcc = None
  /\ source = None
  /\ calls = <<>>
  /\ outfile = <<>>
  /\ \E rows \in CacheContents : db = [file |-> "present", table |-> TRUE, rows |-> rows]
  /\ fault = "none"
  /\ existed = TRUE
  /\ learned = [k \in CanonicalISBNs |-> NotLearned]
  /\ ioerror = FALSE
  /\ log = <<>>
  /\ headers = <<>>
  /\ flushed = 0
  /\ fx_pc = "off" /\ fx_in = <<>> /\ fx_out = <<>> /\ fx_again = <<>>
  /\ AdaptersOff
  /\ runs = <<>>

\* sql_entry = sqlite_search(sqllite_fullpath, fixed_isbn)
NextLookup == Lookup

SpecLookup == InitLookup /\ [][NextLookup]_vars


\* ---------------------------------------------------------------------------
\* Properties of the row loop and the cache

LastCall == calls[Len(calls)]

LastWritten == outfile[Len(outfile)]

InCache(rec) == \E i \in 1..Len(db.rows) : db.rows[i] = rec

\* C1: for a row with a normalised ISBN and no cache hit the adapters are
\* called one at a time in the fixed order OCLC, Harvard, ..., Duke; the first
\* non-empty result ends the chain, no later adapter is called, and the row's
\* call number and source are that result and that adapter's name; otherwise
\* all fourteen have been called.
C1_ChainInOrderUntilFound ==
  /\ \A i \in 1..Len(calls) : calls[i].name = Adapters[i].name
  /\ \A i \in 1..(Len(calls) - 1) : ~Truthy(calls[i].result)
  /\ (pc \in {"write", "insert"} /\ sql_entry = NoEntry) =>
       /\ calls /= <<>>
       /\ IF Truthy(LastCall.result)
            THEN lcc = LastCall.result /\ source = LastCall.name
            ELSE Len(calls) = Len(Adapters) /\ ~Truthy(lcc)

\* OCLC and Harvard found nothing, LofC answered.
C1_Witness ==
  /\ pc = "write"
  /\ Len(calls) = 3
  /\ calls[1] = [name |-> "OCLC", result |-> None]
  /\ calls[3] = [name |-> "LofC", result |-> "PS3623.A59"]
  /\ lcc = "PS3623.A59"
  /\ source = "LofC"

\* C2: for a row whose normalised ISBN has a row in the cache no adapter is
\* called, and the output row carries the cached call number and source.
C2_CacheHitSkipsAdapters ==
  (pc \in {"write", "insert"} /\ sql_entry /= NoEntry) =>
    /\ InCache(sql_entry)
    /\ calls = <<>>
    /\ lcc = sql_entry.LC
    /\ source = sql_entry.LCSource
    /\ pc = "insert" =>
         LastWritten = IF outchoice = 1
                         THEN row \o << sql_entry.LC, sql_entry.LCSource >>
                         ELSE << original_isbn, sql_entry.LC, fixed_isbn,
                                 sql_entry.LCSource >>

\* A row answered by the cache has been written.
C2_Witness ==
  /\ pc = "insert"
  /\ sql_entry /= NoEntry
  /\ calls = <<>>
  /\ LastWritten[2] = sql_entry.LC \/ outchoice = 1

\* C3: when a row is not in the cache and an adapter returns a call number,
\* the output row carries them and afterwards the cache holds the row
\* (normalised ISBN, call number, adapter name).  Stated for the runs in which
\* no sqlite call failed for an outside reason.
C3_RemoteHitIsWrittenThrough ==
  ( /\ pc = "read" /\ row /= <<>>
    /\ ~ioerror /\ sql_entry = NoEntry /\ calls /= <<>> /\ Truthy(lcc) ) =>
    /\ LastWritten = newdata(row, original_isbn, fixed_isbn, LastCall.result, LastCall.name)
    /\ InCache([ISBN |-> fixed_isbn, LC |-> LastCall.result, LCSource |-> LastCall.name])

\* C4: once an adapter has resolved an ISBN, every later row with that ISBN,
\* in this run or a later one on the same cache file, is answered from the
\* cache: no adapter is called and the call number and source are the ones
\* first learned.  Stated for the runs in which no sqlite call failed for an
\* outside reason.
C4_LearnedIsbnServedFromCache ==
  (pc = "write" /\ ~ioerror /\ learned[fixed_isbn].at \notin {0, nread}) =>
    /\ calls = <<>>
    /\ lcc = learned[fixed_isbn].LC
    /\ source = learned[fixed_isbn].LCSource

\* C5: the cache contents change only when a row is resolved by a remote
\* adapter; a row answered by the cache, a NOTFOUND row and an invalid row
\* leave them as they were.
C5_CacheChangesOnlyOnRemoteHit ==
  [][ db'.rows /= db.rows =>
        /\ pc = "insert"
        /\ sql_entry = NoEntry
        /\ calls /= <<>>
        /\ Truthy(LastCall.result)
        /\ db'.rows = Append(db.rows, [ISBN |-> fixed_isbn, LC |-> LastCall.result,
                                       LCSource |-> LastCall.name]) ]_vars

\* The second row went through all the adapters, was written NOTFOUND and
\* passed the insert step; the cache still holds the one row it held.
C5_Witness ==
  /\ pc = "read"
  /\ nread > 1
  /\ sql_entry = NoEntry
  /\ Len(calls) = Len(Adapters)
  /\ ~Truthy(lcc)
  /\ LastWritten[Len(LastWritten)] = "NOTFOUND"
  /\ Len(db.rows) = 1

\* C6: the cache never holds two rows with the same ISBN, whatever the
\* sequence of lookups and inserts, failed lookups included.
C6_OneRowPerIsbn ==
  \A i, j \in 1..Len(db.rows) : db.rows[i].ISBN = db.rows[j].ISBN => i = j

\* C7: sql_tableinsert called with a record whose ISBN already has a row
\* leaves the table unchanged.
C7_InsertIfAbsent ==
  [][ ( /\ pc = "insert"
        /\ ShouldInsert(lcc, sql_entry)
        /\ \E i \in 1..Len(db.rows) : db.rows[i].ISBN = fixed_isbn )
      => db'.rows = db.rows ]_vars

\* C8: in both programs, a cache file that does not exist when the run starts
\* is created with the table main before any row is looked up.  Stated for
\* the runs in which no sqlite call failed for an outside reason.
C8_CacheCreatedAtStart ==
  (pc /= "start" /\ ~existed /\ ~ioerror) => (db.file = "present" /\ db.table)

\* C9: no outcome of an adapter or of the cache aborts a run.
C9_NoFailureAbortsRun ==
  ~(pc = "crashed" /\ fault \in AdapterNames \cup {"sqlite_create", "sqlite_search"})

\* C10: an adapter call returns a call number or None and never raises,
\* whatever the response.
C10_AdaptersNeverRaise ==
  \A i \in 1..Len(calls) : calls[i].result /= Raise


\* ---------------------------------------------------------------------------
\* Output rows, invalid rows and headers

\* The part of a pass after the ISBN has normalised and before its output row
\* is out.
InPass == {"lookup", "chain", "write"}

\* The row has been resolved, by the cache or by an adapter.
Resolved == sql_entry /= NoEntry \/ (calls /= <<>> /\ Truthy(LastCall.result))

ResolvedLcc == IF sql_entry /= NoEntry THEN sql_entry.LC ELSE LastCall.result

ResolvedSource == IF sql_entry /= NoEntry THEN sql_entry.LCSource ELSE LastCall.name

\* C11: in simple mode every data row whose ISBN normalises yields exactly one
\* output row: (original ISBN, LCC, canonical ISBN, source) when resolved and
\* (original ISBN, "", canonical ISBN, "NOTFOUND") when the cache and every
\* adapter returned nothing.
C11_SimpleModeOneRowPerIsbn ==
  [][ outchoice /= 1 =>
        /\ (pc \in InPass /\ pc' \notin InPass) =>
             outfile' = Append(outfile,
                          IF Resolved
                            THEN << original_isbn, ResolvedLcc, fixed_isbn, ResolvedSource >>
                            ELSE << original_isbn, "", fixed_isbn, "NOTFOUND" >>)
        /\ (pc \notin InPass /\ pc' /= "start") => outfile' = outfile ]_vars

\* C12: in repeat mode every input row after the header rows yields exactly
\* one output row, in input order: the row's fields followed by [lcc, source],
\* ["", "NOTFOUND"] when unresolved (["", ""] for a row without a usable ISBN).
C12_RepeatModeOneRowPerRow ==
  [][ outchoice = 1 =>
        /\ (pc = "read" /\ nread' = nread + 1 /\ pc' \notin InPass) =>
             outfile' = Append(outfile, row' \o <<"", "">>)
        /\ (pc \in InPass /\ pc' \notin InPass) =>
             outfile' = Append(outfile,
                          row \o (IF Resolved THEN << ResolvedLcc, ResolvedSource >>
                                  ELSE << "", "NOTFOUND" >>))
        /\ pc = "insert" => outfile' = outfile ]_vars

\* The ISBN token of a row that is not blank is missing, shorter than 10
\* characters or cannot be normalised.
InvalidToken(r) ==
  /\ r /= <<>>
  /\ \/ Len(r) < colchoice + 1
     \/ r[colchoice + 1] = ""
     \/ StrLen(r[colchoice + 1]) < 10
     \/ fix_isbn(Chars(r[colchoice + 1])) = <<>>

\* C13: a row whose ISBN token is missing, too short or unnormalisable is not
\* fatal and reaches neither the cache nor an adapter: an error is logged, in
\* repeat mode the row is written with ["", ""] appended, in simple mode
\* nothing is written for it.
C13_InvalidRowIsSkipped ==
  [][ (pc = "read" /\ nread' = nread + 1 /\ InvalidToken(row')) =>
        /\ pc' = "read"
        /\ log' /= <<>>
        /\ outfile' = IF outchoice = 1 THEN Append(outfile, row' \o <<"", "">>)
                      ELSE outfile
        /\ db' = db ]_vars

\* C14: a lookup during which the cache file cannot be opened is a miss with
\* an error logged; the adapters are tried next and the run goes on.
C14_UnopenableCacheIsMiss ==
  [][ pc = "lookup" =>
        /\ pc' = "chain"
        /\ log' /= log => (sql_entry' = NoEntry /\ ~Truthy(lcc')) ]_vars

\* C15: after a record is inserted into a cache that has no row for its ISBN,
\* a lookup of that ISBN returns the record, equal in all three fields.
C15_CacheRoundTrip ==
  [][ ( /\ db'.rows /= db.rows
        /\ Len(db'.rows) = Len(db.rows) + 1
        /\ \A i \in 1..Len(db.rows) : db.rows[i].ISBN /= db'.rows[Len(db'.rows)].ISBN )
      => LET r == db'.rows[Len(db'.rows)]
         IN Query(db', r.ISBN, TRUE) = r ]_vars

\* The cache holds two ISBNs and the lookup of the second gives the second row.
C15_Witness ==
  /\ Len(db.rows) = 2
  /\ db.rows[1].ISBN /= db.rows[2].ISBN
  /\ Query(db, db.rows[2].ISBN, TRUE) = db.rows[2]

\* A string of 10 or 13 characters with a valid check digit.
ValidISBN(cs) ==
  \/ /\ Len(cs) = 10
     /\ AllDigits(SubSeq(cs, 1, 9))
     /\ cs[10] = check_digit10(SubSeq(cs, 1, 9))
  \/ /\ Len(cs) = 13
     /\ AllDigits(cs)
     /\ cs[13] = check_digit13(SubSeq(cs, 1, 12))

\* The strings of the model that are an ISBN of length 10 or 13 with a valid
\* check digit, and what fix_isbn returns for each string of the model.
ValidISBNStrings == { s \in Strings : ValidISBN(Chars(s)) }

FixIsbnOf == [ s \in Strings |-> fix_isbn(Chars(s)) ]

\* C16: every ISBN used as a lookup key, stored as the key of a cache row or
\* passed to an adapter is a value returned by fix_isbn, of length 10 or 13
\* with a valid check digit; the raw token is never used for these.
C16_OnlyCanonicalIsbnsUsed ==
  /\ \A i \in 1..Len(db.rows) : db.rows[i].ISBN \in ValidISBNStrings
  /\ sql_entry /= NoEntry => sql_entry.ISBN \in ValidISBNStrings
  /\ pc \in {"lookup", "chain", "write", "insert"} =>
       /\ fixed_isbn \in ValidISBNStrings
       /\ FixIsbnOf[fixed_isbn] = FixIsbnOf[original_isbn]
       /\ FixIsbnOf[fixed_isbn] = Chars(fixed_isbn)

\* A hyphenated token was resolved and cached under its canonical form.
C16_Witness ==
  /\ pc = "read"
  /\ original_isbn = "0-8044-2957-X"
  /\ calls /= <<>>
  /\ \E i \in 1..Len(db.rows) : db.rows[i].ISBN = "080442957X"

\* C17: with N header rows configured the first N rows are never treated as
\* data; in repeat mode they are written unchanged, in input order, before any
\* data row, and in simple mode they are not written.
C17_HeaderRowsPassThrough ==
  /\ [][ pc = "headers" =>
           /\ UNCHANGED << rowvars, db, log >>
           /\ outfile' = IF outchoice = 1 THEN headers' ELSE <<>>
           /\ pc' = "read" => Len(headers') = lineskip ]_vars
  /\ [](outchoice = 1 =>
          /\ Len(outfile) >= Len(headers)
          /\ SubSeq(outfile, 1, Len(headers)) = headers)

\* A header line that looks like an ISBN was written first and unchanged, a
\* data row followed it, and the header's ISBN was never resolved.
C17_Witness ==
  /\ pc = "read"
  /\ lineskip = 1
  /\ outchoice = 1
  /\ headers = << <<"9780143127741">> >>
  /\ Len(outfile) = 2
  /\ outfile[1] = <<"9780143127741">>
  /\ learned["9780143127741"] = NotLearned
  /\ learned["080442957X"] /= NotLearned

\* C18: when the processing of a row begins, every output row written before
\* it has been flushed to the output file.
C18_FlushedPerRow ==
  pc \in {"read", "lookup", "chain", "write"} => flushed = Len(outfile)

\* ---------------------------------------------------------------------------
\* fix_isbn

\* An ISBN-10 or ISBN-13 in canonical form: ten characters, nine digits and
\* their check digit, or thirteen digits beginning 978 or 979 with a correct
\* check digit.
CanonicalIsbn(cs) ==
  /\ ValidISBN(cs)
  /\ Len(cs) = 13 => SubSeq(cs, 1, 3) \in { <<"9","7","8">>, <<"9","7","9">> }

Zeros10 == <<"0","0","0","0","0","0","0","0","0","0">>

\* C19 as stated: fix_isbn returns every canonical ISBN-10 or ISBN-13 unchanged,
\* hence fix_isbn(fix_isbn(x)) = fix_isbn(x) wherever fix_isbn returns a value.
C19_FixIsbnIdentityOnCanonical ==
  /\ (fx_pc /= "input" /\ CanonicalIsbn(fx_in)) => fx_out = fx_in
  /\ fx_pc = "refixed" => fx_again = fx_out

\* C19, amended: fix_isbn returns every canonical ISBN-10 or ISBN-13 unchanged
\* except the all-zero string 0000000000, which isbnlib.canonical rejects and
\* for which fix_isbn returns None; fix_isbn is idempotent wherever it returns
\* a value.
C19_FixIsbnIdentityExceptZeros ==
  /\ (fx_pc /= "input" /\ CanonicalIsbn(fx_in) /\ fx_in /= Zeros10) => fx_out = fx_in
  /\ (fx_pc /= "input" /\ fx_in = Zeros10) => fx_out = <<>>
  /\ fx_pc = "refixed" => fx_again = fx_out

\* A canonical ISBN-10 ending in X came back unchanged, twice.
C19_Witness ==
  /\ fx_pc = "refixed"
  /\ fx_in = <<"0","8","0","4","4","2","9","5","7","X">>
  /\ fx_out = fx_in
  /\ fx_again = fx_in

\* C20: fix_isbn returns a value only when the value has length 10 or 13 and
\* passes the matching check-digit validation; an input whose cleaned form is
\* shorter than 10 characters, or fails the validation, gives None.
C20_FixIsbnOnlyValid ==
  fx_pc /= "input" =>
    /\ fx_out /= <<>> => CanonicalIsbn(fx_out)
    /\ Len(SelectSeq(fx_in, LAMBDA c : c \in Digits \cup {"X", "x"})) < 10
         => fx_out = <<>>
    /\ ~CanonicalIsbn(canonical(fx_in)) => fx_out = <<>>

\* A hyphenated ISBN-13 candidate with a wrong check digit gave None.
C20_Witness ==
  /\ fx_pc = "fixed"
  /\ fx_in = <<"9","-","7","8","0","1","4","3","1","2","7","7","4","2">>
  /\ fx_out = <<>>

\* ---------------------------------------------------------------------------
\* The cache rows and a cache file that cannot be queried

\* C21: every row of the cache has a non-empty LC and an LCSource that is the
\* name of one of the 14 adapters; no row records NOTFOUND or an empty call
\* number.  (The cache starts absent, so every row was written by the program.)
C21_CacheRowsAreResolutions ==
  /\ Cardinality(AdapterNames) = 14
  /\ \A i \in 1..Len(db.rows) :
       /\ Truthy(db.rows[i].LC)
       /\ db.rows[i].LCSource \in AdapterNames
       /\ "NOTFOUND" \notin { db.rows[i].LC, db.rows[i].LCSource }

\* A row found nothing and was written as NOTFOUND after the cache had got
\* its first row, and the cache still holds that one row.
C21_Witness ==
  /\ pc = "read"
  /\ Len(db.rows) = 1
  /\ outfile /= <<>>
  /\ LastWritten[Len(LastWritten)] = "NOTFOUND"
  /\ calls /= <<>>

\* C22: a lookup on a cache file that exists but cannot be queried (it has no
\* table main) leaves the file with an empty table main and a warning in the
\* log, so that the inserts that follow succeed.  Only runs in which no sqlite
\* call fails for an outside reason are looked at.
C22_MalformedCacheIsRecreated ==
  [][ pc = "lookup" /\ db.file = "present" /\ ~db.table /\ pc' = "chain" /\ ~ioerror' =>
        /\ db'.table
        /\ db'.rows = <<>>
        /\ log' /= log ]_vars

\* ---------------------------------------------------------------------------
\* The adapters

\* The index of the first element of a sequence that satisfies a test, 0 when
\* none does.
FirstIndex(seq, Test(_)) ==
  IF \E i \in 1..Len(seq) : Test(seq[i])
    THEN CHOOSE i \in 1..Len(seq) : Test(seq[i]) /\ \A j \in 1..(i-1) : ~Test(seq[j])
    ELSE 0

\* A Classify answer that arrived, parsed and reports 'multiple works'.
IsMultipleWorks(r) ==
  r.net = "ok" /\ r.xml = "ok" /\ r.response /\ r.code = "4" /\ r.works

\* C23: a Classify lookup for an ISBN issues its 'isbn' request and at most one
\* follow-up request, of type 'wi'; a 'wi' call issues no further request,
\* whatever codes the server answers with.
C23_OneLevelOfIndirection ==
  ad_pc = "done" /\ ad_kind = "oclc" =>
    /\ Len(ad_requests) \in {1, 2}
    /\ ad_requests[1].parmtype = "isbn"
    /\ \A i \in 2..Len(ad_requests) : ad_requests[i].parmtype = "wi"

\* C24: on a 'multiple works' answer to the ISBN query exactly one work is
\* followed, the first in document order with a work identifier and LCC among
\* its schemes, and the result is the result of that work's query; no other
\* work is queried, and without such a work the result is None.
C24_FollowsFirstLccWork ==
  ad_pc = "done" /\ ad_kind = "oclc" /\ IsMultipleWorks(ad_reply["isbn"]) =>
    LET work == ad_reply["isbn"].work
        HasLcc(w) == w.wi /= NoAttr /\ "LCC" \in w.schemes
        first == FirstIndex(work, HasLcc)
        asked == [parmtype |-> "isbn", parmvalue |-> "9780143127741"]
    IN IF first = 0
         THEN ad_result = None /\ ad_requests = << asked >>
         ELSE /\ ad_requests = << asked, [parmtype |-> "wi", parmvalue |-> work[first].wi] >>
              /\ ad_result = get_oclc_data("wi", work[first].wi, ad_reply, MaxDepth - 1)

\* C25: harvard_get returns the text of the first entry of
\* items.mods.classification whose authority is lcc, whether classification is
\* one entry or a list in any order, and None only when no entry is lcc.
C25_HarvardFirstLccEntry ==
  /\ ad_pc = "done" /\ ad_kind = "harvard"
  /\ ad_reply.net = "ok" /\ ad_reply.body \in {"dict", "list"} /\ ~ad_reply.empty
  /\ ad_reply.items = "mods" /\ ad_reply.shape \in {"single", "list"}
  => LET cls == ad_reply.classification
         IsLcc(e) == e.authority = "lcc"
         first == FirstIndex(cls, IsLcc)
     IN ad_result = IF first = 0 THEN None ELSE cls[first].text

\* C26: when the first record has a field 050 with a subfield a, loc_search
\* returns the text of that subfield, whether the field has one subfield or
\* several.
C26_LocField050a ==
  /\ ad_pc = "done" /\ ad_kind = "loc"
  /\ ad_reply.net = "ok" /\ Len(ad_reply.records) >= 1
  /\ ad_reply.records[1].hasDatafield
  => LET fields == ad_reply.records[1].datafield
         IsA(sf) == sf.code = "a"
         Has050a(x) == x.tag = "050" /\ FirstIndex(x.subfield, IsA) /= 0
         f == FirstIndex(fields, Has050a)
     IN f /= 0 =>
          ad_result = fields[f].subfield[FirstIndex(fields[f].subfield, IsA)].text

\* C27: when the detail page of the first result link that holds '/catalog/'
\* has a 050 block with a subfield a, get_blacklight returns the first such
\* value of that page's first 050 block: no later link, later block or anchor
\* without href replaces or discards it.
C27_BlacklightFirstLink ==
  /\ ad_pc = "done" /\ ad_kind = "blacklight" /\ ad_reply.net = "ok"
  => LET IsRecord(t) == t.href = "catalog"
         t == FirstIndex(ad_reply.tags, IsRecord)
         Is050(b) == b.tag_ind = "050" /\ b.hasSubfields
         IsA(sf) == sf.code = "a"
     IN t /= 0 /\ ad_reply.tags[t].detail.net = "ok" =>
          LET fields == ad_reply.tags[t].detail.fields
              b == FirstIndex(fields, Is050)
          IN b /= 0 /\ FirstIndex(fields[b].subfields, IsA) /= 0 =>
               ad_result = fields[b].subfields[FirstIndex(fields[b].subfields, IsA)].text

\* ---------------------------------------------------------------------------
\* The ISBN column

\* The row loop has read a row that is not blank.
ReadsRow == pc = "read" /\ nread' = nread + 1 /\ row' /= <<>>

Logged(entries, what) == \E i \in 1..Len(entries) : entries[i] = what

\* C28: the ISBN is taken from the configured column only: a row that has
\* this column and holds a valid ISBN in it goes on to the lookup with that
\* ISBN normalised, whatever its other columns hold, and 'Missing ISBN' is
\* logged only for a row whose ISBN column is empty.
C28_IsbnTakenFromItsColumn ==
  [][ ReadsRow /\ Len(row') > colchoice =>
        /\ fix_isbn(Chars(row'[colchoice + 1])) /= <<>> =>
             /\ pc' = "lookup"
             /\ original_isbn' = row'[colchoice + 1]
             /\ Chars(fixed_isbn') = fix_isbn(Chars(row'[colchoice + 1]))
        /\ Logged(log', "Missing ISBN") => row'[colchoice + 1] = "" ]_vars

\* C29: a row that is not blank and has fewer fields than the ISBN column
\* needs is logged as 'Not enough columns' and goes no further: no lookup,
\* no index error.
C29_ShortRowIsGuarded ==
  [][ ReadsRow /\ Len(row') <= colchoice =>
        /\ pc' = "read"
        /\ log' = <<"Not enough columns">>
        /\ fault' = fault ]_vars

\* ---------------------------------------------------------------------------
\* The second stage of fix_isbn

\* The valid ISBNs among the canonical forms of the ISBN-like substrings of a
\* token.
ValidSubstrings(cs) ==
  { c \in { canonical(get_isbnlike(cs)[i]) : i \in 1..Len(get_isbnlike(cs)) } :
      CanonicalIsbn(c) }

\* C30: when the canonical form of the whole token is not a valid ISBN but the
\* token holds an ISBN-like substring that is a valid ISBN once cleaned,
\* fix_isbn returns that ISBN, not None.
C30_SecondStageWorks ==
  /\ fx_pc \in {"fixed", "refixed"}
  /\ ~CanonicalIsbn(canonical(fx_in))
  /\ ValidSubstrings(fx_in) /= {}
  => fx_out \in ValidSubstrings(fx_in)

\* ---------------------------------------------------------------------------
\* The source of a row, and the order of output and insert

\* C31: the source written to the output and to the cache for a resolved row
\* is the one obtained for that row, the cached row's source or the name of
\* the adapter that returned the call number, never one left in the variable
\* by an earlier row.
C31_SourceIsOfThisRow ==
  [][ /\ pc = "write" /\ Truthy(lcc) =>
           /\ Resolved
           /\ outfile'[Len(outfile')][Len(outfile'[Len(outfile')])] = ResolvedSource
      /\ pc = "insert" /\ db'.rows /= db.rows =>
           /\ Resolved
           /\ db'.rows[Len(db'.rows)].LCSource = ResolvedSource ]_vars

\* Two rows were resolved in one run, the second by an adapter that comes
\* earlier in the chain than the one that resolved the first.
C31_Witness ==
  /\ pc = "read"
  /\ outchoice /= 1
  /\ Len(outfile) = 2
  /\ outfile[1][4] = "Harvard"
  /\ outfile[2][4] = "OCLC"
  /\ Len(db.rows) = 2
  /\ db.rows[1].LCSource = "Harvard"
  /\ db.rows[2].LCSource = "OCLC"

\* The output file holds, among its flushed rows, the row of a resolution:
\* the canonical ISBN with its call number and source in simple mode, the
\* call number and source as the last two fields in repeat mode.
WrittenOut(rec) ==
  \E j \in 1..flushed :
    LET out == outfile[j]
        n == Len(out)
    IN IF outchoice = 1
         THEN n >= 2 /\ out[n - 1] = rec.LC /\ out[n] = rec.LCSource
         ELSE out[2] = rec.LC /\ out[3] = rec.ISBN /\ out[4] = rec.LCSource

\* C32: the output row of a row is written and flushed before its cache
\* insert is attempted, and the insert, failed or not, leaves the output file
\* as it is; hence every cache row learned during the current run belongs to
\* an ISBN whose output row has been written.  (A run that started without a
\* cache file has learned every row of the cache itself.)
C32_OutputBeforeInsert ==
  /\ [][ (pc = "insert" =>
            /\ flushed = Len(outfile)
            /\ outfile /= <<>>
            /\ LastWritten = newdata(row, original_isbn, fixed_isbn, lcc, source)
            /\ outfile' = outfile
            /\ flushed' = flushed
            /\ pc' = "read")
         /\ (db'.rows /= db.rows => pc = "insert") ]_vars
  /\ [](~existed => \A i \in 1..Len(db.rows) : WrittenOut(db.rows[i]))

\* An insert failed after its row had been written and flushed, and the row
\* is still the last of the output file.
C32_Witness ==
  /\ pc = "read"
  /\ Logged(log, "TableInsert Error")
  /\ db.table
  /\ db.rows = <<>>
  /\ flushed = 1
  /\ Len(outfile) = 1
  /\ Truthy(lcc)
  /\ LastWritten = newdata(row, original_isbn, fixed_isbn, lcc, source)

\* ---------------------------------------------------------------------------
\* Two runs on one cache file

CachedKeys == { db.rows[i].ISBN : i \in 1..Len(db.rows) }

\* C33: however the lookups, adapter chains and inserts of two runs on one
\* cache file interleave, the cache holds one row per canonical ISBN.
C33_InterleavedRunsKeepKeysUnique ==
  runs /= <<>> => Cardinality(CachedKeys) = Len(db.rows)

\* ---------------------------------------------------------------------------
\* The cache lookup

\* C34: a lookup of a canonical ISBN in a cache whose keys are canonical
\* ISBNs returns a row only if the row is in the cache under exactly that
\* ISBN, and returns None when no row has that ISBN.
C34_LookupIsExactMatch ==
  [][ pc = "lookup" /\ pc' = "chain" =>
        /\ sql_entry' /= NoEntry => (sql_entry'.ISBN = fixed_isbn /\ InCache(sql_entry'))
        /\ fixed_isbn \notin CachedKeys => sql_entry' = NoEntry ]_vars

\* The lookup returned the row of its ISBN although a row of another ISBN of
\* the same length comes first in the table.
C34_Witness ==
  /\ pc = "chain"
  /\ fixed_isbn = "080442957X"
  /\ Len(db.rows) = 2
  /\ db.rows[1].ISBN = "0143127748"
  /\ sql_entry = db.rows[2]
  /\ lcc = db.rows[2].LC
====
